---- MODULE Spec2Model ----
(***************************************************************************)
(* Model of the investidabh gateway's graph endpoint, GET /api/graph       *)
(* (entity aggregation, temporal classification, priority scoring,         *)
(* pattern detection and graph assembly), together with the part of the    *)
(* store it reads: the investigations and intelligence tables.             *)
(*                                                                         *)
(* Spec runs the handler against the store.  KeySpec, ScoreSpec and        *)
(* GraphSpec apply one part of the handler (the entity id, one turn of     *)
(* the node loop, the handler after its queries) to inputs drawn directly. *)
(*                                                                         *)
(* Text is a sequence of one-character strings, so that the template       *)
(* literals that build ids are real concatenations.  Time is measured in   *)
(* hours (a year of the source's milliseconds exceeds 32-bit integers);    *)
(* real-valued scores are fixed-point integers at ScoreScale.              *)
(***************************************************************************)
EXTENDS Integers, Sequences, FiniteSets, Bags, TLC

(* ------------------------------ bounds --------------------------------- *)
\* most rows the intelligence table holds
MaxRows == 2
\* most rows of a query result handed to the handler directly
MaxObs == 4
\* most GET /api/graph requests at the server
MaxRequests == 3
\* most POST /api/investigations requests
MaxCreates == 3

(* ------------------------------- text ---------------------------------- *)
\* SQL NULL / a missing column value; no text equals it
NULL == <<"NULL">>

person == <<"p", "e", "r", "s", "o", "n">>
organization == <<"o", "r", "g", "a", "n", "i", "z", "a", "t", "i", "o", "n">>
ip == <<"i", "p">>

\* uuidv4() of the investigations the user creates, in the order of creation
InvUuids == << <<"1">>, <<"2">> >>

Min(a, b) == IF a < b THEN a ELSE b
Max(a, b) == IF a > b THEN a ELSE b

\* `ent - ${ item.type } -${ item.normalized_value } `
EntId(type, normalized_value) ==
    <<"e", "n", "t", " ", "-", " ">> \o type \o <<" ", "-">> \o normalized_value \o <<" ">>

\* `inv - ${ inv.id } `
InvNodeId(id) == <<"i", "n", "v", " ", "-", " ">> \o id \o <<" ">>

(* --------------------------- time and scores --------------------------- *)
\* 24 * 60 * 60 * 1000 ms, in hours
oneDayMs == 24

\* created_at values the store holds, and the wall clock of a request
CreatedAts == {0, 360 * oneDayMs}
Nows == {361 * oneDayMs, 368 * oneDayMs}

\* fixed-point unit of the real-valued sub-scores
ScoreScale == 10000

(* ------------------------------ the store ------------------------------ *)
\* metadata JSONB of a row: SQL NULL, or an object whose relations and
\* average_sentiment may be absent (relations <<>>, average_sentiment 0: the
\* handler reads both with `|| []` / `|| 0`).  average_sentiment is in tenths.
NullMetadata == [isNull |-> TRUE, relations |-> <<>>, average_sentiment |-> 0]
Metadatas ==
    { NullMetadata,
      [isNull |-> FALSE, relations |-> << "r1" >>, average_sentiment |-> 0],
      [isNull |-> FALSE, relations |-> <<>>, average_sentiment |-> -10] }

\* raw extracted text of a normalized value
RawValue(normalized_value) ==
    IF normalized_value = <<"a">> THEN <<"A">> ELSE normalized_value

\* rows the analysis workers insert into the intelligence table
IntelRow(inv, type, nv, created, md) ==
    [investigation_id |-> inv, type |-> type, value |-> RawValue(nv),
     normalized_value |-> nv, created_at |-> created, metadata |-> md]

IntelDomain(invs) ==
    { IntelRow(inv, type, <<"a">>, c, md) :
        inv \in invs, type \in {person, ip}, c \in CreatedAts, md \in Metadatas }
    \cup { IntelRow(inv, ip, nv, 0, NullMetadata) : inv \in invs, nv \in {<<>>, NULL} }

VARIABLES
    investigations,  \* ids of the rows of the investigations table (of the user)
    intelligence,    \* the intelligence table, a bag of rows
    pc,              \* position of the GET /api/graph handler
    invRows,         \* result of the investigations query
    intelRows,       \* result of the intelligence query, as delivered
    rowsAfter,       \* the same row objects once the handler has run
    nowTime,         \* Date.now() of the request
    entityStats,     \* the entityStats map, in insertion order
    entityPatterns,  \* the entityPatterns map, in insertion order
    nodes,           \* reply: nodes
    edges,           \* reply: edges
    insights,        \* reply: insights
    keyPairs,        \* two (type, normalized_value) pairs whose keys are compared
    keyIds,          \* their entity ids
    scoreIn,         \* one entry of entityStats given to the node loop, and its clock
    scoreOut,        \* what the node loop computed for it
    routes,          \* the routes registered on the shared app: <<path, handler>>
    auditLogs,       \* number of VIEW_GRAPH rows of the audit_logs table
    servePc,         \* position of each GET /api/graph request at the server
    intelMetadata,   \* per investigation: the user whose PATCH wrote its intelligence metadata
    alertSubs,       \* users with an open /api/alerts/stream
    delivered,       \* per user: the data of the last response or stream event
    createdRows,     \* ids of the investigations rows inserted by POST /api/investigations
    taskQueue,       \* the Redis list tasks:collector, newest first
    createPc         \* position of each POST /api/investigations request

vars == <<investigations, intelligence, pc, invRows, intelRows, rowsAfter,
          nowTime, entityStats, entityPatterns, nodes, edges, insights, keyPairs, keyIds,
          scoreIn, scoreOut, routes, auditLogs, servePc,
          intelMetadata, alertSubs, delivered, createdRows, taskQueue, createPc>>

dbVars == <<investigations, intelligence>>
reqVars == <<pc, invRows, intelRows, rowsAfter, nowTime, entityStats, entityPatterns,
            nodes, edges, insights>>
keyVars == <<keyPairs, keyIds>>
scoreVars == <<scoreIn, scoreOut>>
serveVars == <<routes, auditLogs, servePc>>
\* the variables of the specifications of the other endpoints
isoVars == <<intelMetadata, alertSubs, delivered>>
createVars == <<createdRows, taskQueue, createPc>>
sideVars == <<serveVars, isoVars, createVars>>
\* the variables of the graph handler and its store
mainVars == <<dbVars, reqVars, keyVars, scoreVars>>

(* --------------------------- sequences, bags --------------------------- *)
RECURSIVE SeqsOfSet(_)
\* every ordering of a finite set
SeqsOfSet(S) ==
    IF S = {} THEN { <<>> }
    ELSE UNION { { <<x>> \o s : s \in SeqsOfSet(S \ {x}) } : x \in S }

RECURSIVE SeqsOfBag(_)
\* every ordering of the elements of a bag
SeqsOfBag(B) ==
    IF B = EmptyBag THEN { <<>> }
    ELSE UNION { { <<x>> \o s : s \in SeqsOfBag(B (-) SetToBag({x})) } : x \in BagToSet(B) }

RECURSIVE SeqToBag(_)
SeqToBag(s) == IF s = <<>> THEN EmptyBag ELSE SetToBag({Head(s)}) (+) SeqToBag(Tail(s))

\* rows of a bag that satisfy a predicate given as a set of accepted rows
BagFilter(B, keep) == [x \in BagToSet(B) \cap keep |-> B[x]]

(* --------------------------- entity aggregator ------------------------- *)
\* position of the entry with this id in a map kept in insertion order, 0 if none
RECURSIVE IndexOfId(_, _, _)
IndexOfId(entries, id, i) ==
    IF i > Len(entries) THEN 0
    ELSE IF entries[i].id = id THEN i
    ELSE IndexOfId(entries, id, i + 1)

MapHas(entries, id) == IndexOfId(entries, id, 1) # 0
MapGet(entries, id) == entries[IndexOfId(entries, id, 1)]

\* created_at of a row stored with an explicit NULL (the column is nullable)
NullDate == -1

\* new Date(item.created_at || Date.now()): the clock of the run for a row
\* without created_at
CurrentDate(item, now) == IF item.created_at = NullDate THEN now ELSE item.created_at

\* NewStats with the count of the seeding row already in the new entry
NewStats_FrequencyOne(item, i, now) ==
    [id |-> EntId(item.type, item.normalized_value),
     type |-> item.type,
     value |-> item.value,
     normalized_value |-> item.normalized_value,
     first_seen |-> CurrentDate(item, now),
     last_seen |-> CurrentDate(item, now),
     frequency |-> 1,
     investigation_ids |-> <<>>,
     metadata |-> IF item.metadata.isNull
                  THEN [isNull |-> FALSE, relations |-> <<>>, average_sentiment |-> 0]
                  ELSE item.metadata,
     seed |-> IF item.metadata.isNull THEN 0 ELSE i]

\* the entry entityStats.set(entId, {...}) creates for the first row of an entity.
\* metadata: item.metadata || {} is the row's own metadata object when it has one
\* (seed = index of that row), a fresh object otherwise (seed = 0).
NewStats(item, i, now) ==
    [id |-> EntId(item.type, item.normalized_value),
     type |-> item.type,
     value |-> item.value,
     normalized_value |-> item.normalized_value,
     first_seen |-> CurrentDate(item, now),
     last_seen |-> CurrentDate(item, now),
     frequency |-> 0,
     investigation_ids |-> <<>>,
     metadata |-> IF item.metadata.isNull
                  THEN [isNull |-> FALSE, relations |-> <<>>, average_sentiment |-> 0]
                  ELSE item.metadata,
     seed |-> IF item.metadata.isNull THEN 0 ELSE i]

\* item.metadata?.relations is truthy
HasRelations(item) == ~item.metadata.isNull /\ item.metadata.relations # <<>>

\* stats.metadata.relations = [...existingrels, ...newrels]
MergeRelations(stats, item) ==
    IF HasRelations(item)
    THEN [stats.metadata EXCEPT !.relations = stats.metadata.relations \o item.metadata.relations]
    ELSE stats.metadata

\* Set.add on a Set kept in insertion order
SetAdd(set, x) == IF \E j \in 1..Len(set) : set[j] = x THEN set ELSE Append(set, x)

\* UpdateStats recording the investigation of the seeding row only
UpdateStats_InvestigationOfSeedOnly(stats, item, now) ==
    [stats EXCEPT
        !.frequency = stats.frequency + 1,
        !.investigation_ids = IF stats.frequency = 0
                              THEN SetAdd(stats.investigation_ids, item.investigation_id)
                              ELSE stats.investigation_ids,
        !.first_seen = IF CurrentDate(item, now) < stats.first_seen THEN CurrentDate(item, now) ELSE stats.first_seen,
        !.last_seen = IF CurrentDate(item, now) > stats.last_seen THEN CurrentDate(item, now) ELSE stats.last_seen,
        !.metadata = MergeRelations(stats, item)]

\* UpdateStats with the first_seen comparison turned around
UpdateStats_FirstSeenCompareReversed(stats, item, now) ==
    [stats EXCEPT
        !.frequency = stats.frequency + 1,
        !.investigation_ids = SetAdd(stats.investigation_ids, item.investigation_id),
        !.first_seen = IF CurrentDate(item, now) > stats.first_seen THEN CurrentDate(item, now) ELSE stats.first_seen,
        !.last_seen = IF CurrentDate(item, now) > stats.last_seen THEN CurrentDate(item, now) ELSE stats.last_seen,
        !.metadata = MergeRelations(stats, item)]

\* UpdateStats taking the date of the row processed last as last_seen
UpdateStats_LastSeenOverwritten(stats, item, now) ==
    [stats EXCEPT
        !.frequency = stats.frequency + 1,
        !.investigation_ids = SetAdd(stats.investigation_ids, item.investigation_id),
        !.first_seen = IF CurrentDate(item, now) < stats.first_seen THEN CurrentDate(item, now) ELSE stats.first_seen,
        !.last_seen = CurrentDate(item, now),
        !.metadata = MergeRelations(stats, item)]

\* the updates of one row on the entry of its entity
UpdateStats(stats, item, now) ==
    [stats EXCEPT
        !.frequency = stats.frequency + 1,
        !.investigation_ids = SetAdd(stats.investigation_ids, item.investigation_id),
        !.first_seen = IF CurrentDate(item, now) < stats.first_seen THEN CurrentDate(item, now) ELSE stats.first_seen,
        !.last_seen = IF CurrentDate(item, now) > stats.last_seen THEN CurrentDate(item, now) ELSE stats.last_seen,
        !.metadata = MergeRelations(stats, item)]

\* one iteration of intelRows.rows.forEach: acc.stats is the entityStats map,
\* acc.rows the row objects (the row that seeded an entry shares its metadata
\* object with the entry, so a merge into the entry writes into that row)
AggregateStep(acc, i, now) ==
    LET item == acc.rows[i]
        entId == EntId(item.type, item.normalized_value)
        withEntry == IF MapHas(acc.stats, entId) THEN acc.stats
                     ELSE Append(acc.stats, NewStats(item, i, now))
        k == IndexOfId(withEntry, entId, 1)
        updated == UpdateStats(withEntry[k], item, now)
    IN  [stats |-> [withEntry EXCEPT ![k] = updated],
         rows |-> IF updated.seed = 0 THEN acc.rows
                  ELSE [acc.rows EXCEPT ![updated.seed].metadata = updated.metadata]]

RECURSIVE AggregateFrom(_, _, _)
AggregateFrom(acc, i, now) ==
    IF i > Len(acc.rows) THEN acc ELSE AggregateFrom(AggregateStep(acc, i, now), i + 1, now)

\* the aggregation loop over the delivered rows
Aggregate(rows, now) == AggregateFrom([stats |-> <<>>, rows |-> rows], 1, now)

(* ------------------- temporal classifier, priority scorer -------------- *)
\* AgingCategory with the three boundaries given to the older category
AgingCategory_BoundaryToOlder(last_seen, now) ==
    LET diff == now - last_seen
    IN  IF diff < 7 * oneDayMs THEN "FRESH"
        ELSE IF diff < 90 * oneDayMs THEN "RECENT"
        ELSE IF diff < 365 * oneDayMs THEN "STALE"
        ELSE "ANCIENT"

\* diffDays = (nowTime - last_seen) / oneDayMs against 7, 90, 365
AgingCategory(last_seen, now) ==
    LET diff == now - last_seen
    IN  IF diff <= 7 * oneDayMs THEN "FRESH"
        ELSE IF diff <= 90 * oneDayMs THEN "RECENT"
        ELSE IF diff <= 365 * oneDayMs THEN "STALE"
        ELSE "ANCIENT"

\* Math.log2(d) * 20 at ScoreScale, d = 1..22 (10 + log2(23) * 20 > 100)
Log2Times20 ==
    <<0, 200000, 316993, 400000, 464386, 516993, 561471, 600000, 633985,
      664386, 691886, 716993, 740088, 761471, 781378, 800000, 817493,
      833985, 849586, 864386, 878463, 891886>>

\* Math.round of a non-negative fixed-point value
RoundScaled(x) == (x + ScoreScale \div 2) \div ScoreScale

\* Math.min(100, 10 + Math.log2(Math.max(1, degree)) * 20)
DegreeScore(degree) ==
    LET d == Max(1, degree)
    IN  IF d > Len(Log2Times20) THEN 100 * ScoreScale
        ELSE Min(100 * ScoreScale, 10 * ScoreScale + Log2Times20[d])

\* Math.min(100, stats.frequency * 3)
FreqScore(frequency) == Min(100, frequency * 3) * ScoreScale

\* CrossInvScore that gives 50 for every investigation, the first included
CrossInvScore_FirstCounts(size) == Min(100, size * 50) * ScoreScale

\* Math.min(100, (stats.investigation_ids.size - 1) * 50)
CrossInvScore(size) == Min(100, (size - 1) * 50) * ScoreScale

\* SentimentScore that rises with the sentiment
SentimentScore_PositiveRaises(sentiment) ==
    Max(0, Min(100 * ScoreScale, 50 * ScoreScale + sentiment * 5 * ScoreScale))

\* Math.max(0, Math.min(100, 50 - sentiment * 50)), sentiment in tenths
SentimentScore(sentiment) ==
    Max(0, Min(100 * ScoreScale, 50 * ScoreScale - sentiment * 5 * ScoreScale))

\* FreshnessScore with the values of RECENT and STALE exchanged
FreshnessScore_StaleAboveRecent(agingCategory) ==
    (CASE agingCategory = "FRESH" -> 100
       [] agingCategory = "RECENT" -> 30
       [] agingCategory = "STALE" -> 70
       [] OTHER -> 0) * ScoreScale

\* freshnessMap[agingCategory] || 0
FreshnessScore(agingCategory) ==
    (CASE agingCategory = "FRESH" -> 100
       [] agingCategory = "RECENT" -> 70
       [] agingCategory = "STALE" -> 30
       [] OTHER -> 0) * ScoreScale

\* PriorityScore with the five sub-scores weighted equally
PriorityScore_EqualWeights(degreeScore, freqScore, crossInvScore, sentimentScore, freshnessScore) ==
    (20 * degreeScore + 20 * freqScore + 20 * crossInvScore
        + 20 * sentimentScore + 20 * freshnessScore + 50 * ScoreScale)
    \div (100 * ScoreScale)

\* Math.round(0.25*degree + 0.20*freq + 0.25*crossInv + 0.15*sentiment + 0.15*freshness)
PriorityScore(degreeScore, freqScore, crossInvScore, sentimentScore, freshnessScore) ==
    (25 * degreeScore + 20 * freqScore + 25 * crossInvScore
        + 15 * sentimentScore + 15 * freshnessScore + 50 * ScoreScale)
    \div (100 * ScoreScale)

\* everything the node loop computes for one entry of entityStats
Score(stats, now) ==
    LET agingCategory == AgingCategory(stats.last_seen, now)
        relationsCount == Len(stats.metadata.relations)
        degree == relationsCount + Len(stats.investigation_ids)
        degreeScore == DegreeScore(degree)
        freqScore == FreqScore(stats.frequency)
        crossInvScore == CrossInvScore(Len(stats.investigation_ids))
        sentimentScore == SentimentScore(stats.metadata.average_sentiment)
        freshnessScore == FreshnessScore(agingCategory)
        priorityScore == PriorityScore(degreeScore, freqScore, crossInvScore,
                                       sentimentScore, freshnessScore)
    IN  [aging_category |-> agingCategory,
         degree |-> degree,
         score |-> priorityScore,
         level |-> IF priorityScore >= 75 THEN "high"
                   ELSE IF priorityScore >= 50 THEN "medium" ELSE "low",
         breakdown |-> [degree |-> RoundScaled(degreeScore),
                        frequency |-> RoundScaled(freqScore),
                        cross_investigation |-> RoundScaled(crossInvScore),
                        sentiment |-> RoundScaled(sentimentScore),
                        freshness |-> RoundScaled(freshnessScore)]]

(* ----------------------------- graph assembler ------------------------- *)
\* node.data.patterns when nothing has been marked
NoPatterns == [is_anomaly |-> FALSE, spike_ratio |-> <<>>, is_key_entity |-> FALSE]

\* nodes.push for one investigation.  An absent field of a node is <<>>; the
\* label is the row's target_url, which stands here as the id it belongs to.
InvNode(id) ==
    [id |-> InvNodeId(id), type |-> "input", label |-> id, data_type |-> <<>>,
     stats |-> <<>>, priority |-> <<>>, metadata |-> <<>>, patterns |-> NoPatterns,
     style |-> <<[border |-> "none"]>>]

\* the first nodes.push of the node loop: label `${ stats.type }: ${ stats.value } `,
\* the whole stats entry, no priority and no style
FirstEntityNode(stats) ==
    [id |-> stats.id, type |-> "default",
     label |-> stats.type \o <<":", " ">> \o stats.value \o <<" ">>,
     data_type |-> <<stats.type>>,
     stats |-> <<[frequency |-> stats.frequency, first_seen |-> stats.first_seen,
                  last_seen |-> stats.last_seen, aging_category |-> "none"]>>,
     priority |-> <<>>, metadata |-> <<stats.metadata>>, patterns |-> NoPatterns,
     style |-> <<>>]

\* priorityBorder: by level, overridden for ANCIENT
PriorityBorder(sc) ==
    IF sc.aging_category = "ANCIENT" THEN "2px dashed #cbd5e1"
    ELSE IF sc.score >= 75 THEN "3px solid #ef4444"
    ELSE IF sc.score >= 50 THEN "2px solid #f97316"
    ELSE "2px solid white"

\* the second nodes.push of the node loop, with the priority and its breakdown
SecondEntityNode(stats, sc) ==
    [id |-> stats.id, type |-> "none", label |-> stats.value,
     data_type |-> <<stats.type>>,
     stats |-> <<[frequency |-> stats.frequency, first_seen |-> stats.first_seen,
                  last_seen |-> stats.last_seen, aging_category |-> sc.aging_category]>>,
     priority |-> <<[score |-> sc.score, level |-> sc.level, breakdown |-> sc.breakdown]>>,
     metadata |-> <<stats.metadata>>, patterns |-> NoPatterns,
     style |-> <<[border |-> PriorityBorder(sc)]>>]

\* stats.investigation_ids.forEach(invId => edges.push(...))
EntityEdges(stats, sc) ==
    [j \in 1..Len(stats.investigation_ids) |->
        [id |-> <<"e", " ", "-", " ">> \o stats.investigation_ids[j] \o <<" ", "-">>
                    \o stats.id \o <<" ">>,
         source |-> InvNodeId(stats.investigation_ids[j]),
         target |-> stats.id,
         animated |-> sc.score >= 50,
         high |-> sc.score >= 75]]

\* what one iteration of entityStats.forEach pushes
EntityNodes(stats, now) ==
    <<FirstEntityNode(stats), SecondEntityNode(stats, Score(stats, now))>>

RECURSIVE BuildNodes(_, _, _)
BuildNodes(statsMap, now, i) ==
    IF i > Len(statsMap) THEN <<>>
    ELSE EntityNodes(statsMap[i], now) \o BuildNodes(statsMap, now, i + 1)

RECURSIVE BuildEdges(_, _, _)
BuildEdges(statsMap, now, i) ==
    IF i > Len(statsMap) THEN <<>>
    ELSE EntityEdges(statsMap[i], Score(statsMap[i], now)) \o BuildEdges(statsMap, now, i + 1)

\* AssembleNodes without the nodes of the investigations
AssembleNodes_EntitiesOnly(invs, statsMap, now) ==
    BuildNodes(statsMap, now, 1)

\* nodes after invRows.rows.forEach and entityStats.forEach
AssembleNodes(invs, statsMap, now) ==
    [j \in 1..Len(invs) |-> InvNode(invs[j])] \o BuildNodes(statsMap, now, 1)

(* ----------------------------- pattern detector ------------------------ *)
\* PatternStep counting in freqMonthly only the rows older than seven days
PatternStep_MonthlyExcludesWeek(patterns, item, statsMap, now) ==
    LET entId == EntId(item.type, item.normalized_value)
        itemDate == CurrentDate(item, now)
        sevenDaysAgo == now - 7 * oneDayMs
        thirtyDaysAgo == now - 30 * oneDayMs
        degree == IF MapHas(statsMap, entId)
                  THEN Len(MapGet(statsMap, entId).investigation_ids)
                        + Len(MapGet(statsMap, entId).metadata.relations)
                  ELSE 0
        withEntry == IF MapHas(patterns, entId) THEN patterns
                     ELSE Append(patterns,
                            [id |-> entId, freq7d |-> 0, freqMonthly |-> 0,
                             priorityScore |-> 0, degree |-> degree,
                             type |-> item.type, label |-> item.value])
        k == IndexOfId(withEntry, entId, 1)
    IN  [withEntry EXCEPT
            ![k].freq7d = IF itemDate >= sevenDaysAgo THEN @ + 1 ELSE @,
            ![k].freqMonthly = IF itemDate >= thirtyDaysAgo /\ itemDate < sevenDaysAgo
                               THEN @ + 1 ELSE @]

\* one iteration of the second intelRows.rows.forEach: count recent activity
PatternStep(patterns, item, statsMap, now) ==
    LET entId == EntId(item.type, item.normalized_value)
        itemDate == CurrentDate(item, now)
        sevenDaysAgo == now - 7 * oneDayMs
        thirtyDaysAgo == now - 30 * oneDayMs
        degree == IF MapHas(statsMap, entId)
                  THEN Len(MapGet(statsMap, entId).investigation_ids)
                        + Len(MapGet(statsMap, entId).metadata.relations)
                  ELSE 0
        withEntry == IF MapHas(patterns, entId) THEN patterns
                     ELSE Append(patterns,
                            [id |-> entId, freq7d |-> 0, freqMonthly |-> 0,
                             priorityScore |-> 0, degree |-> degree,
                             type |-> item.type, label |-> item.value])
        k == IndexOfId(withEntry, entId, 1)
    IN  [withEntry EXCEPT
            ![k].freq7d = IF itemDate >= sevenDaysAgo THEN @ + 1 ELSE @,
            ![k].freqMonthly = IF itemDate >= thirtyDaysAgo THEN @ + 1 ELSE @]

RECURSIVE CountPatterns(_, _, _, _, _)
CountPatterns(patterns, rows, statsMap, now, i) ==
    IF i > Len(rows) THEN patterns
    ELSE CountPatterns(PatternStep(patterns, rows[i], statsMap, now), rows, statsMap, now, i + 1)

\* nodes.forEach(node => entityPatterns.get(node.id).priorityScore = node.data.priority?.score || 0)
RECURSIVE CopyPriorities(_, _, _)
CopyPriorities(patterns, ns, i) ==
    IF i > Len(ns) THEN patterns
    ELSE LET k == IndexOfId(patterns, ns[i].id, 1)
             score == IF ns[i].priority = <<>> THEN 0 ELSE ns[i].priority[1].score
         IN  CopyPriorities(IF k = 0 THEN patterns ELSE [patterns EXCEPT ![k].priorityScore = score],
                            ns, i + 1)

\* the entityPatterns map once counted and given the priorities of the nodes
EntityPatterns(rows, statsMap, ns, now) ==
    CopyPriorities(CountPatterns(<<>>, rows, statsMap, now, 1), ns, 1)

\* the anomaly a pattern produces, <<>> if none; spike_ratio in tenths
\* (monthlyAvg = freqMonthly / 4, spikeRatio = freq7d / monthlyAvg)
AnomalyOf(pattern) ==
    IF pattern.freqMonthly = 0 /\ pattern.freq7d > 2
    THEN <<[label |-> pattern.label, type |-> pattern.type,
            spike_ratio |-> 10 * pattern.freq7d, reason |-> "new"]>>
    ELSE IF pattern.freqMonthly > 0
            /\ 4 * pattern.freq7d > 3 * pattern.freqMonthly /\ pattern.freq7d > 1
    THEN <<[label |-> pattern.label, type |-> pattern.type,
            spike_ratio |-> (80 * pattern.freq7d + pattern.freqMonthly)
                                \div (2 * pattern.freqMonthly),
            reason |-> "spike"]>>
    ELSE <<>>

RECURSIVE DetectAnomalies(_, _)
DetectAnomalies(patterns, i) ==
    IF i > Len(patterns) THEN <<>>
    ELSE AnomalyOf(patterns[i]) \o DetectAnomalies(patterns, i + 1)

\* nodes.find(n => n.id === entityId): position of the first node with the id
NodeFind(ns, id) == IndexOfId(ns, id, 1)

\* the anomaly loop's writes to the found node, for every pattern of the
\* frequency-spike branch: node.data.patterns = {is_anomaly: true, spike_ratio}
\* (spike_ratio as <<4*freq7d, freqMonthly>>), then node.style.border = ...,
\* which throws a TypeError when the found node has no style
RECURSIVE MarkAnomalies(_, _, _)
MarkAnomalies(ns, patterns, i) ==
    IF i > Len(patterns) THEN [threw |-> FALSE, nodes |-> ns]
    ELSE LET a == AnomalyOf(patterns[i])
             k == NodeFind(ns, patterns[i].id)
             withPatterns == [ns EXCEPT ![k].patterns =
                                [is_anomaly |-> TRUE,
                                 spike_ratio |-> <<4 * patterns[i].freq7d, patterns[i].freqMonthly>>,
                                 is_key_entity |-> FALSE]]
         IN  IF a # <<>> /\ a[1].reason = "spike" /\ k # 0
             THEN IF ns[k].style = <<>>
                  THEN [threw |-> TRUE, nodes |-> withPatterns]
                  ELSE MarkAnomalies(
                          [withPatterns EXCEPT ![k].style = <<[border |-> "3px solid #dc2626"]>>],
                          patterns, i + 1)
             ELSE MarkAnomalies(ns, patterns, i + 1)

RECURSIVE SumOf(_, _, _)
\* reduce((a, b) => a + b, 0) over a field of the patterns
SumOf(patterns, field, i) ==
    IF i > Len(patterns) THEN 0 ELSE patterns[i][field] + SumOf(patterns, field, i + 1)

\* pattern.priorityScore >= threshold && pattern.degree >= avgDegree &&
\* ['person', 'organization'].includes(pattern.type), with
\* avg = sum / (length || 1) and threshold = avgPriority + (100 - avgPriority) * 0.5
IsKeyEntity(pattern, patterns) ==
    LET n == IF Len(patterns) = 0 THEN 1 ELSE Len(patterns)
        sumPriority == SumOf(patterns, "priorityScore", 1)
        sumDegree == SumOf(patterns, "degree", 1)
    IN  /\ 2 * n * pattern.priorityScore >= sumPriority + 100 * n
        /\ n * pattern.degree >= sumDegree
        /\ pattern.type \in {person, organization}

RECURSIVE KeyEntities(_, _)
KeyEntities(patterns, i) ==
    IF i > Len(patterns) THEN <<>>
    ELSE (IF IsKeyEntity(patterns[i], patterns)
          THEN <<[label |-> patterns[i].label, type |-> patterns[i].type,
                  priority |-> patterns[i].priorityScore, degree |-> patterns[i].degree]>>
          ELSE <<>>) \o KeyEntities(patterns, i + 1)

\* the key-entity loop's writes to the found node: node.data.patterns =
\* {...node.data.patterns, is_key_entity: true}, then node.style.border = ...,
\* which throws a TypeError when the found node has no style
RECURSIVE MarkKeyEntities(_, _, _)
MarkKeyEntities(ns, patterns, i) ==
    IF i > Len(patterns) THEN [threw |-> FALSE, nodes |-> ns]
    ELSE LET k == NodeFind(ns, patterns[i].id)
             withPatterns == [ns EXCEPT ![k].patterns.is_key_entity = TRUE]
         IN  IF IsKeyEntity(patterns[i], patterns) /\ k # 0
             THEN IF ns[k].style = <<>>
                  THEN [threw |-> TRUE, nodes |-> withPatterns]
                  ELSE MarkKeyEntities(
                          [withPatterns EXCEPT ![k].style = <<[border |-> "3px solid #eab308"]>>],
                          patterns, i + 1)
             ELSE MarkKeyEntities(ns, patterns, i + 1)

\* Array.prototype.sort with (a, b) => b[field] - a[field]: stable, descending
RECURSIVE InsertDesc(_, _, _)
InsertDesc(sorted, x, field) ==
    IF sorted = <<>> THEN <<x>>
    ELSE IF Head(sorted)[field] >= x[field]
         THEN <<Head(sorted)>> \o InsertDesc(Tail(sorted), x, field)
         ELSE <<x>> \o sorted

RECURSIVE SortDesc(_, _, _)
SortDesc(list, field, i) ==
    IF i = 0 THEN <<>>
    ELSE InsertDesc(SortDesc(list, field, i - 1), list[i], field)

\* slice(0, 5)
Slice5(list) == SubSeq(list, 1, Min(5, Len(list)))

\* the insights object of the reply; avg_priority = Math.round(avgPriority),
\* avg_degree = Math.round(avgDegree * 10) / 10 kept in tenths
Insights(patterns, ns, es) ==
    LET n == IF Len(patterns) = 0 THEN 1 ELSE Len(patterns)
        sumPriority == SumOf(patterns, "priorityScore", 1)
        sumDegree == SumOf(patterns, "degree", 1)
        topEntities == KeyEntities(patterns, 1)
        anomalies == DetectAnomalies(patterns, 1)
    IN  [top_entities |-> Slice5(SortDesc(topEntities, "priority", Len(topEntities))),
         anomalies |-> Slice5(SortDesc(anomalies, "spike_ratio", Len(anomalies))),
         stats |-> [total_nodes |-> Len(ns),
                    total_edges |-> Len(es),
                    avg_priority |-> (2 * sumPriority + n) \div (2 * n),
                    avg_degree |-> (20 * sumDegree + n) \div (2 * n)]]

\* the whole synchronous part of the handler, from the delivered rows to the
\* return statement, or to the TypeError that takes it to the catch clause
Graph(invs, rows, now) ==
    LET agg == Aggregate(rows, now)
        ns == AssembleNodes(invs, agg.stats, now)
        es == BuildEdges(agg.stats, now, 1)
        patterns == EntityPatterns(agg.rows, agg.stats, ns, now)
        anomalyMarks == MarkAnomalies(ns, patterns, 1)
        marks == IF anomalyMarks.threw THEN anomalyMarks
                 ELSE MarkKeyEntities(anomalyMarks.nodes, patterns, 1)
    IN  [threw |-> marks.threw, entityStats |-> agg.stats, rowsAfter |-> agg.rows,
         entityPatterns |-> patterns,
         nodes |-> marks.nodes, edges |-> es,
         insights |-> Insights(patterns, marks.nodes, es)]

(* -------------------------------- actions ------------------------------ *)
\* the reply of a run over no observations, and the handler's locals before a run
NoInsights == Insights(<<>>, <<>>, <<>>)

\* ---- the server: routes of the shared app, the audit log, the requests ----

Requests == 1..MaxRequests

\* GET /api/graph as registered when the app is built
BuildRoutes == { <<"/api/graph", "graphOuter">> }

\* the routes the handler of GET /api/graph registers when a request runs it
NestedRoutes ==
    { <<"/api/alerts/stream", "alertsStream">>,
      <<"/api/investigations/:id/timeline", "timeline">>,
      <<"/api/investigations/:id/report", "report">>,
      <<"/api/graph", "graphInner">> }

ServeIdle ==
    /\ routes = BuildRoutes
    /\ auditLogs = 0
    /\ servePc = [r \in Requests |-> "idle"]

\* the two users, and the investigation each of them owns
IsoUsers == { "userA", "userB" }
IsoOwner == [inv \in { "invA", "invB" } |->
                IF inv = "invA" THEN "userA" ELSE "userB"]
IsoInvs == DOMAIN IsoOwner

IsoIdle ==
    /\ intelMetadata = [inv \in IsoInvs |-> "none"]
    /\ alertSubs = {}
    /\ delivered = [u \in IsoUsers |-> <<>>]

CreateRequests == 1..MaxCreates

CreateIdle ==
    /\ createdRows = {}
    /\ taskQueue = <<>>
    /\ createPc = [r \in CreateRequests |-> "idle"]

SideIdle == ServeIdle /\ IsoIdle /\ CreateIdle

Init ==
    /\ SideIdle
    /\ investigations = {}
    /\ intelligence = EmptyBag
    /\ pc = "idle"
    /\ invRows = <<>>
    /\ intelRows = <<>>
    /\ rowsAfter = <<>>
    /\ nowTime = 0
    /\ entityStats = <<>>
    /\ entityPatterns = <<>>
    /\ nodes = <<>>
    /\ edges = <<>>
    /\ insights = NoInsights
    /\ keyPairs = <<>>
    /\ keyIds = <<>>
    /\ scoreIn = <<>>
    /\ scoreOut = <<>>

\* POST /api/investigations: INSERT INTO investigations with a fresh uuid.
\* (The store is not stepped while a finished reply is being handed over: the
\* handler does not look at it again.)
CreateInvestigation ==
    /\ pc # "done"
    /\ Cardinality(investigations) < Len(InvUuids)
    /\ investigations' = investigations \cup {InvUuids[Cardinality(investigations) + 1]}
    /\ UNCHANGED <<intelligence, reqVars, keyVars, scoreVars, sideVars>>

\* an analysis worker stores one extracted entity of an existing investigation
InsertIntelligence ==
    /\ pc # "done"
    /\ BagCardinality(intelligence) < MaxRows
    /\ \E row \in IntelDomain(investigations) :
            intelligence' = intelligence (+) SetToBag({row})
    /\ UNCHANGED <<investigations, reqVars, keyVars, scoreVars, sideVars>>

\* GET /api/graph up to the first await: SELECT id, target_url FROM investigations
\* WHERE user_id = $1, delivered in any order
GraphFetchInvestigations ==
    /\ pc = "idle"
    /\ \E rows \in SeqsOfSet(investigations) : invRows' = rows
    /\ pc' = "fetchedInv"
    /\ UNCHANGED <<dbVars, intelRows, rowsAfter, nowTime, entityStats, entityPatterns, nodes, edges,
                   insights, keyVars, scoreVars, sideVars>>

\* rows of SELECT ... FROM intelligence i JOIN investigations inv ...
\* WHERE inv.user_id = $1 AND i.normalized_value IS NOT NULL
IntelQuery(table) ==
    BagFilter(table, { row \in BagToSet(table) : row.normalized_value # NULL })

\* what the handler sends: {nodes, edges, insights} from the return statement,
\* or 500 {error: "Graph fetch failed"} from catch (err) when the run threw
SendReply(g) ==
    /\ nodes' = IF g.threw THEN <<>> ELSE g.nodes
    /\ edges' = IF g.threw THEN <<>> ELSE g.edges
    /\ insights' = IF g.threw THEN NoInsights ELSE g.insights
    /\ pc' = IF g.threw THEN "failed" ELSE "done"

\* GET /api/graph from the second query to the reply: the rows arrive in any
\* order and the rest of the handler runs without another await
GraphReply ==
    /\ pc = "fetchedInv"
    /\ \E rows \in SeqsOfBag(IntelQuery(intelligence)), now \in Nows :
         \E g \in {Graph(invRows, rows, now)} :
             /\ intelRows' = rows
             /\ nowTime' = now
             /\ rowsAfter' = g.rowsAfter
             /\ entityStats' = g.entityStats
             /\ entityPatterns' = g.entityPatterns
             /\ SendReply(g)
    /\ UNCHANGED <<dbVars, invRows, keyVars, scoreVars, sideVars>>

\* GraphFetchFails that replies with the nodes of the investigations it has
GraphFetchFails_PartialGraph ==
    /\ pc \in {"idle", "fetchedInv"}
    /\ pc' = "failed"
    /\ nodes' = [j \in 1..Len(invRows) |-> InvNode(invRows[j])]
    /\ UNCHANGED <<dbVars, invRows, intelRows, rowsAfter, nowTime, entityStats, entityPatterns,
                   edges, insights, keyVars, scoreVars, sideVars>>

\* a query rejects: catch (err) replies 500 {error: "Graph fetch failed"}
GraphFetchFails ==
    /\ pc \in {"idle", "fetchedInv"}
    /\ pc' = "failed"
    /\ UNCHANGED <<dbVars, invRows, intelRows, rowsAfter, nowTime, entityStats, entityPatterns,
                   nodes, edges, insights, keyVars, scoreVars, sideVars>>

\* the reply has been sent; the locals of the handler are gone
GraphReturn ==
    /\ pc \in {"done", "failed"}
    /\ pc' = "idle"
    /\ invRows' = <<>>
    /\ intelRows' = <<>>
    /\ rowsAfter' = <<>>
    /\ nowTime' = 0
    /\ entityStats' = <<>>
    /\ entityPatterns' = <<>>
    /\ nodes' = <<>>
    /\ edges' = <<>>
    /\ insights' = NoInsights
    /\ UNCHANGED <<dbVars, keyVars, scoreVars, sideVars>>

Next ==
    \/ CreateInvestigation
    \/ InsertIntelligence
    \/ GraphFetchInvestigations
    \/ GraphReply
    \/ GraphFetchFails
    \/ GraphReturn

Spec == Init /\ [][Next]_vars

(* ------------------- the entity key as a function of text -------------- *)
\* types and normalized values as arbitrary text (both columns are TEXT)
KeyTypes == { <<"a">>, <<"a", " ", "-", "b">>, ip }
KeyValues == { <<"c">>, <<"b", " ", "-", "c">>, <<>>, <<"a">> }

KeyInit ==
    /\ SideIdle
    /\ investigations = {}
    /\ intelligence = EmptyBag
    /\ pc = "idle"
    /\ invRows = <<>>
    /\ intelRows = <<>>
    /\ rowsAfter = <<>>
    /\ nowTime = 0
    /\ entityStats = <<>>
    /\ entityPatterns = <<>>
    /\ nodes = <<>>
    /\ edges = <<>>
    /\ insights = NoInsights
    /\ keyPairs \in (KeyTypes \X KeyValues) \X (KeyTypes \X KeyValues)
    /\ keyIds = <<>>
    /\ scoreIn = <<>>
    /\ scoreOut = <<>>

\* the entId of the aggregation loop for each of the two rows
ComputeKeys ==
    /\ keyIds = <<>>
    /\ keyIds' = <<EntId(keyPairs[1][1], keyPairs[1][2]), EntId(keyPairs[2][1], keyPairs[2][2])>>
    /\ UNCHANGED <<dbVars, reqVars, keyPairs, scoreVars, sideVars>>

KeyNext == ComputeKeys

KeySpec == KeyInit /\ [][KeyNext]_vars

(* ------------- the node loop as a function of one entry --------------- *)
\* the clock of the run, and how long before it the entity was last seen:
\* the three boundaries, one hour past each, the near and the far end, and a
\* last_seen ahead of the clock
ScoreNow == 600 * oneDayMs
ScoreAges ==
    { 0 - oneDayMs, 0, 7 * oneDayMs, 7 * oneDayMs + 1, 90 * oneDayMs, 90 * oneDayMs + 1,
      365 * oneDayMs, 365 * oneDayMs + 1, 500 * oneDayMs }

\* sizes of stats.metadata.relations and of stats.investigation_ids, values of
\* stats.frequency and of stats.metadata.average_sentiment (tenths)
ScoreRelationCounts == {0, 1, 2, 5, 19, 20, 30}
ScoreInvIds == << <<"1">>, <<"2">>, <<"3">>, <<"4">> >>
ScoreFrequencies == {1, 2, 4, 33, 34, 50}
ScoreSentiments == {-15, -10, -4, 0, 3, 10, 15}

\* an entry of entityStats as the aggregation loop leaves it
ScoreStats(relationsCount, size, frequency, sentiment, last_seen) ==
    [id |-> EntId(person, <<"a">>),
     type |-> person,
     value |-> RawValue(<<"a">>),
     normalized_value |-> <<"a">>,
     first_seen |-> Min(0, last_seen),
     last_seen |-> last_seen,
     frequency |-> frequency,
     investigation_ids |-> SubSeq(ScoreInvIds, 1, size),
     metadata |-> [isNull |-> FALSE,
                   relations |-> [j \in 1..relationsCount |-> "r1"],
                   average_sentiment |-> sentiment],
     seed |-> 0]

ScoreInit ==
    /\ SideIdle
    /\ investigations = {}
    /\ intelligence = EmptyBag
    /\ pc = "idle"
    /\ invRows = <<>>
    /\ intelRows = <<>>
    /\ rowsAfter = <<>>
    /\ nowTime = 0
    /\ entityStats = <<>>
    /\ entityPatterns = <<>>
    /\ nodes = <<>>
    /\ edges = <<>>
    /\ insights = NoInsights
    /\ keyPairs = <<>>
    /\ keyIds = <<>>
    /\ \E r \in ScoreRelationCounts, f \in ScoreFrequencies,
          sent \in ScoreSentiments, age \in ScoreAges :
          \* every investigation of an entry has contributed a row to its frequency
          \E n \in { k \in DOMAIN ScoreInvIds : k <= f } :
              scoreIn = [stats |-> ScoreStats(r, n, f, sent, ScoreNow - age), now |-> ScoreNow]
    /\ scoreOut = <<>>

\* one turn of entityStats.forEach: category, sub-scores, priority
ApplyScore ==
    /\ scoreOut = <<>>
    /\ scoreOut' = <<Score(scoreIn.stats, scoreIn.now)>>
    /\ UNCHANGED <<dbVars, reqVars, keyVars, scoreIn, sideVars>>

ScoreNext == ApplyScore

ScoreSpec == ScoreInit /\ [][ScoreNext]_vars

(* ------------- the handler as a function of the query results --------- *)
\* ids of the investigations of the user, and the clock of the run
GraphInvIds == << <<"1">>, <<"2">>, <<"3">> >>
GraphNow == 400 * oneDayMs
GraphTypes == {person, organization, ip}

\* metadata of a row with one relation and the most negative sentiment, and
\* of a row with no relation and the most positive sentiment
HotMetadata == [isNull |-> FALSE, relations |-> << "r1" >>, average_sentiment |-> -10]
ColdMetadata == [isNull |-> FALSE, relations |-> <<>>, average_sentiment |-> 10]

\* rows of two entities: one of type hot, seen yesterday in any investigation
\* (HotMetadata) and ten days ago in the first (no metadata); one of type
\* cold, seen 400 days ago in the first investigation (ColdMetadata) and, in a
\* row without created_at, in the second (no metadata)
GraphRows(hot, cold) ==
    { IntelRow(inv, hot, <<"a">>, GraphNow - oneDayMs, HotMetadata) :
        inv \in { GraphInvIds[j] : j \in DOMAIN GraphInvIds } }
    \cup { IntelRow(GraphInvIds[1], hot, <<"a">>, GraphNow - 10 * oneDayMs, NullMetadata),
           IntelRow(GraphInvIds[1], cold, <<"b">>, 0, ColdMetadata),
           IntelRow(GraphInvIds[2], cold, <<"b">>, NullDate, NullMetadata) }

\* the results of the two queries: a user with rows has the investigations
\* they belong to; a user with no rows has any number of investigations
GraphInit ==
    /\ SideIdle
    /\ investigations = {}
    /\ intelligence = EmptyBag
    /\ pc = "fetchedInv"
    /\ \E hot \in GraphTypes, cold \in {person, ip}, n \in 0..MaxObs :
          intelRows \in [1..n -> GraphRows(hot, cold)]
    /\ invRows \in IF intelRows = <<>>
                   THEN { SubSeq(GraphInvIds, 1, k) : k \in 0..Len(GraphInvIds) }
                   ELSE { GraphInvIds }
    /\ rowsAfter = <<>>
    /\ nowTime = GraphNow
    /\ entityStats = <<>>
    /\ entityPatterns = <<>>
    /\ nodes = <<>>
    /\ edges = <<>>
    /\ insights = NoInsights
    /\ keyPairs = <<>>
    /\ keyIds = <<>>
    /\ scoreIn = <<>>
    /\ scoreOut = <<>>

\* the handler from the query results to the reply
GraphCompute ==
    /\ pc = "fetchedInv"
    /\ \E g \in {Graph(invRows, intelRows, nowTime)} :
         /\ rowsAfter' = g.rowsAfter
         /\ entityStats' = g.entityStats
         /\ entityPatterns' = g.entityPatterns
         /\ SendReply(g)
    /\ UNCHANGED <<dbVars, invRows, intelRows, nowTime, keyVars, scoreVars, sideVars>>

GraphNext == GraphCompute

GraphSpec == GraphInit /\ [][GraphNext]_vars

(* ------------------------- properties of the reply --------------------- *)
\* positions of the entity nodes of the reply (every node that is not an investigation's)
EntityNodeIndexes == { i \in DOMAIN nodes : nodes[i].type # "input" }

\* the rows of the delivered result that have the type and normalized value of an entry
RowsOf(type, normalized_value) ==
    { i \in DOMAIN intelRows : /\ intelRows[i].type = type
                               /\ intelRows[i].normalized_value = normalized_value }

\* the distinct (type, normalized value) pairs among the delivered rows
CanonicalKeys == { <<intelRows[i].type, intelRows[i].normalized_value>> : i \in DOMAIN intelRows }

\* every ordering of the delivered rows
Orderings(rows) ==
    { [i \in DOMAIN rows |-> rows[perm[i]]] : perm \in Permutations(DOMAIN rows) }

InRange(x) == x \in 0..100

\* C1: every entity node of the reply carries an integer priority score in 0..100
\* and five sub-scores in 0..100.
C1_EveryEntityNodeScored ==
    pc = "done" =>
        \A i \in EntityNodeIndexes :
            /\ nodes[i].priority # <<>>
            /\ InRange(nodes[i].priority[1].score)
            /\ InRange(nodes[i].priority[1].breakdown.degree)
            /\ InRange(nodes[i].priority[1].breakdown.frequency)
            /\ InRange(nodes[i].priority[1].breakdown.cross_investigation)
            /\ InRange(nodes[i].priority[1].breakdown.sentiment)
            /\ InRange(nodes[i].priority[1].breakdown.freshness)

\* the bounds do hold on the nodes that carry a priority (the second push of the loop)
ScoredNodesInRange ==
    pc = "done" =>
        \A i \in EntityNodeIndexes :
            nodes[i].priority # <<>> =>
                /\ InRange(nodes[i].priority[1].score)
                /\ InRange(nodes[i].priority[1].breakdown.degree)
                /\ InRange(nodes[i].priority[1].breakdown.frequency)
                /\ InRange(nodes[i].priority[1].breakdown.cross_investigation)
                /\ InRange(nodes[i].priority[1].breakdown.sentiment)
                /\ InRange(nodes[i].priority[1].breakdown.freshness)

\* C2: the source and the target of every edge of a reply are ids of nodes of
\* that reply.
C2_NoDanglingEdges ==
    pc = "done" =>
        \A j \in DOMAIN edges :
            /\ \E i \in DOMAIN nodes : nodes[i].id = edges[j].source
            /\ \E i \in DOMAIN nodes : nodes[i].id = edges[j].target

\* C3: no two nodes of a reply share an id, and the reply has one node per
\* investigation plus one per canonical entity.
C3_OneNodePerInvestigationAndEntity ==
    pc = "done" =>
        /\ \A i, j \in DOMAIN nodes : i # j => nodes[i].id # nodes[j].id
        /\ Len(nodes) = Len(invRows) + Cardinality(CanonicalKeys)

\* C4: the reply has exactly one edge for every (investigation, entity) pair with
\* an observation of the entity under the investigation, and no other edge.
C4_OneEdgePerMembership ==
    pc = "done" =>
        /\ \A n \in DOMAIN InvUuids : \A key \in CanonicalKeys :
              Cardinality({ j \in DOMAIN edges :
                              /\ edges[j].source = InvNodeId(InvUuids[n])
                              /\ edges[j].target = EntId(key[1], key[2]) })
              = IF \E i \in RowsOf(key[1], key[2]) : intelRows[i].investigation_id = InvUuids[n]
                THEN 1 ELSE 0
        /\ \A j \in DOMAIN edges : \E i \in DOMAIN intelRows :
              /\ edges[j].source = InvNodeId(intelRows[i].investigation_id)
              /\ edges[j].target = EntId(intelRows[i].type, intelRows[i].normalized_value)

\* two observations of one entity under one investigation gave a single edge
C4_Witness ==
    /\ pc = "done"
    /\ Len(intelRows) = 2
    /\ Cardinality(CanonicalKeys) = 1
    /\ intelRows[1].investigation_id = intelRows[2].investigation_id
    /\ Len(edges) = 1

\* C5: two rows get the same entity id exactly when they have the same type and
\* the same normalized value.
C5_KeyInjective ==
    keyIds # <<>> => (keyIds[1] = keyIds[2] <=> keyPairs[1] = keyPairs[2])

\* C6: a row whose normalized value is empty or missing changes nothing of the
\* reply: the reply is the one computed from the other rows.
NonEmptyRows == SelectSeq(intelRows, LAMBDA row : row.normalized_value \notin {<<>>, NULL})

C6_EmptyValueSkipped ==
    pc = "done" =>
        /\ entityStats = Aggregate(NonEmptyRows, nowTime).stats
        /\ nodes = Graph(invRows, NonEmptyRows, nowTime).nodes
        /\ edges = Graph(invRows, NonEmptyRows, nowTime).edges

\* C7: the frequency of an entity is the number of delivered rows with its type
\* and normalized value, and the frequencies add up to the number of rows.
RECURSIVE SumFrequency(_, _)
SumFrequency(statsMap, i) ==
    IF i > Len(statsMap) THEN 0 ELSE statsMap[i].frequency + SumFrequency(statsMap, i + 1)

AggregateSummary(statsMap) ==
    { [id |-> statsMap[k].id, frequency |-> statsMap[k].frequency,
       first_seen |-> statsMap[k].first_seen, last_seen |-> statsMap[k].last_seen] :
      k \in DOMAIN statsMap }

C9_AggregationOrderIndependent ==
    pc = "done" =>
        \A summary \in {AggregateSummary(entityStats)} :
            \A rows \in Orderings(intelRows) :
                \A statsMap \in {Aggregate(rows, nowTime).stats} :
                    /\ AggregateSummary(statsMap) = summary
                    /\ Len(statsMap) = Len(entityStats)

\* an entity with two rows of different dates and investigations: two orderings
C9_Witness ==
    /\ pc = "done"
    /\ Len(entityStats) = 1
    /\ Cardinality(Orderings(intelRows)) = 2
    /\ entityStats[1].frequency = 2
    /\ entityStats[1].first_seen < entityStats[1].last_seen

\* C10: every ordering of the delivered rows gives, for the same investigations
\* and the same now, the same set of nodes, the same set of edges and the same
\* insights.
SeqRange(list) == { list[i] : i \in DOMAIN list }

C10_GraphOrderIndependent ==
    pc = "done" =>
        \A rows \in Orderings(intelRows) :
            \E g \in {Graph(invRows, rows, nowTime)} :
                /\ SeqRange(g.nodes) = SeqRange(nodes)
                /\ SeqRange(g.edges) = SeqRange(edges)
                /\ g.insights = insights

(* ---------------------- properties of the node loop -------------------- *)
\* the entry that has been scored, and its age at the clock of the run
ScoredAge == scoreIn.now - scoreIn.stats.last_seen

\* C11: the classifier gives every age exactly one of the four categories:
\* FRESH iff the age is at most 7 days, RECENT iff it is over 7 and at most 90,
\* STALE iff it is over 90 and at most 365, ANCIENT iff it is over 365; ages of
\* exactly 7, 90 and 365 days fall in the fresher category.
C11_ClassifierThresholds ==
    scoreOut # <<>> =>
        LET c == scoreOut[1].aging_category
        IN  /\ c \in {"FRESH", "RECENT", "STALE", "ANCIENT"}
            /\ (c = "FRESH") <=> (ScoredAge <= 7 * oneDayMs)
            /\ (c = "RECENT") <=> (7 * oneDayMs < ScoredAge /\ ScoredAge <= 90 * oneDayMs)
            /\ (c = "STALE") <=> (90 * oneDayMs < ScoredAge /\ ScoredAge <= 365 * oneDayMs)
            /\ (c = "ANCIENT") <=> (ScoredAge > 365 * oneDayMs)

\* an entity last seen exactly 365 days ago has been classified STALE
C11_Witness ==
    /\ scoreOut # <<>>
    /\ ScoredAge = 365 * oneDayMs
    /\ scoreOut[1].aging_category = "STALE"

\* the five sub-scores of the scored entry at ScoreScale, from its own counts
ScoredRelationCount == Len(scoreIn.stats.metadata.relations)
ScoredInvestigationCount == Len(scoreIn.stats.investigation_ids)
ScoredDegreeArg == Max(1, ScoredRelationCount + ScoredInvestigationCount)
ScoredSubScores ==
    [degree |-> IF ScoredDegreeArg > Len(Log2Times20) THEN 100 * ScoreScale
                ELSE Min(100 * ScoreScale, 10 * ScoreScale + Log2Times20[ScoredDegreeArg]),
     frequency |-> Min(100, 3 * scoreIn.stats.frequency) * ScoreScale,
     cross_investigation |-> Min(100, (ScoredInvestigationCount - 1) * 50) * ScoreScale,
     sentiment |-> Max(0, Min(100, 50 - 5 * scoreIn.stats.metadata.average_sentiment)) * ScoreScale,
     freshness |-> (IF ScoredAge <= 7 * oneDayMs THEN 100
                    ELSE IF ScoredAge <= 90 * oneDayMs THEN 70
                    ELSE IF ScoredAge <= 365 * oneDayMs THEN 30 ELSE 0) * ScoreScale]

\* 100 * ScoreScale times the weighted sum of the sub-scores
ScoredWeightedSum ==
    25 * ScoredSubScores.degree + 20 * ScoredSubScores.frequency
    + 25 * ScoredSubScores.cross_investigation + 15 * ScoredSubScores.sentiment
    + 15 * ScoredSubScores.freshness

ScoreAtAge(age) ==
    Score([scoreIn.stats EXCEPT !.last_seen = scoreIn.now - age], scoreIn.now)
ScoreAtSentiment(sentiment) ==
    Score([scoreIn.stats EXCEPT !.metadata.average_sentiment = sentiment], scoreIn.now)

\* C14: all else equal, the freshness sub-score never rises with the age of an
\* entity: it is non-increasing along FRESH, RECENT, STALE, ANCIENT, and a FRESH
\* entity never has less than an ANCIENT one.
C14_FreshnessNonIncreasing ==
    scoreOut # <<>> =>
        \A age \in ScoreAges :
            LET other == ScoreAtAge(age)
                order == [FRESH |-> 1, RECENT |-> 2, STALE |-> 3, ANCIENT |-> 4]
            IN  /\ age >= ScoredAge =>
                      other.breakdown.freshness <= scoreOut[1].breakdown.freshness
                /\ order[other.aging_category] > order[scoreOut[1].aging_category] =>
                      other.breakdown.freshness <= scoreOut[1].breakdown.freshness

\* a RECENT entity has been scored: fresher and older entities are compared with it
C14_Witness ==
    /\ scoreOut # <<>>
    /\ scoreOut[1].aging_category = "RECENT"
    /\ scoreOut[1].breakdown.freshness = 70

\* the average sentiment of the scored entry, in tenths
ScoredSentiment == scoreIn.stats.metadata.average_sentiment

\* C15: the sentiment sub-score is max(0, min(100, 50 - 50 * averageSentiment)):
\* 100 for -1, 50 for 0, 0 for +1, never rising with the average sentiment; an
\* entity without sentiment data (read as 0) has exactly 50.
C15_SentimentSubScore ==
    scoreOut # <<>> =>
        LET sub == scoreOut[1].breakdown.sentiment
        IN  /\ sub = Max(0, Min(100, 50 - 5 * ScoredSentiment))
            /\ ScoredSentiment = -10 => sub = 100
            /\ ScoredSentiment = 0 => sub = 50
            /\ ScoredSentiment = 10 => sub = 0
            /\ \A sentiment \in ScoreSentiments :
                  sentiment >= ScoredSentiment =>
                      ScoreAtSentiment(sentiment).breakdown.sentiment <= sub

\* an entity of average sentiment -0.4 has been given the sub-score 70
C15_Witness ==
    /\ scoreOut # <<>>
    /\ ScoredSentiment = -4
    /\ scoreOut[1].breakdown.sentiment = 70

(* ------------------ properties of the reply, per entity ---------------- *)
\* positions of the scored node of an entity (the node pushed with a priority)
ScoredNodesOf(type, normalized_value) ==
    { i \in DOMAIN nodes : /\ nodes[i].id = EntId(type, normalized_value)
                           /\ nodes[i].priority # <<>> }

\* the investigations the observations of an entity belong to
InvestigationsOf(type, normalized_value) ==
    { intelRows[j].investigation_id : j \in RowsOf(type, normalized_value) }

Answered == pc \in {"done", "failed"}

\* observations of an entity in the last 7 and in the last 30 days
Freq7dOf(type, normalized_value) ==
    Cardinality({ i \in RowsOf(type, normalized_value) :
                    intelRows[i].created_at >= nowTime - 7 * oneDayMs })
FreqMonthlyOf(type, normalized_value) ==
    Cardinality({ i \in RowsOf(type, normalized_value) :
                    intelRows[i].created_at >= nowTime - 30 * oneDayMs })

\* the anomalies of the reply that name an entity
AnomaliesOf(type, normalized_value) ==
    { j \in DOMAIN insights.anomalies :
        /\ insights.anomalies[j].type = type
        /\ insights.anomalies[j].label = RawValue(normalized_value) }

\* C16: an entity with observations in the last 30 days (monthlyAvg =
\* freqMonthly / 4 > 0) is reported as an anomaly exactly when freq7d / monthlyAvg
\* > 3 and freq7d > 1; a ratio of exactly 3, or freq7d = 1, is not reported.
C16_SpikeReportedIffRule ==
    Answered =>
        \A k \in CanonicalKeys :
            FreqMonthlyOf(k[1], k[2]) > 0 =>
                ((pc = "done" /\ AnomaliesOf(k[1], k[2]) # {})
                 <=> (/\ 4 * Freq7dOf(k[1], k[2]) > 3 * FreqMonthlyOf(k[1], k[2])
                      /\ Freq7dOf(k[1], k[2]) > 1))

\* C17: an entity with n > 2 observations in the last 7 days and none in the 23
\* days before them is reported as a new-entity anomaly with spike ratio n.
C17_NewEntityReported ==
    Answered =>
        \A k \in CanonicalKeys :
            (/\ Freq7dOf(k[1], k[2]) > 2
             /\ FreqMonthlyOf(k[1], k[2]) = Freq7dOf(k[1], k[2]))
            => /\ pc = "done"
               /\ \E j \in AnomaliesOf(k[1], k[2]) :
                     /\ insights.anomalies[j].reason = "new"
                     /\ insights.anomalies[j].spike_ratio = 10 * Freq7dOf(k[1], k[2])

\* priority score and degree of an entity, from its entry of entityStats
EntityScore(type, normalized_value) ==
    Score(MapGet(entityStats, EntId(type, normalized_value)), nowTime)

RECURSIVE SumScores(_, _)
\* sums of the priority scores and of the degrees of the entries of entityStats
SumScores(field, i) ==
    IF i > Len(entityStats) THEN 0
    ELSE Score(entityStats[i], nowTime)[field] + SumScores(field, i + 1)

\* priorityScore >= avgPriority + (100 - avgPriority) * 0.5, degree >= avgDegree
\* and type person or organization, the averages over all entities
MeetsKeyEntityRule(type, normalized_value) ==
    LET n == Len(entityStats)
        sc == EntityScore(type, normalized_value)
    IN  /\ 2 * n * sc.score >= SumScores("score", 1) + 100 * n
        /\ n * sc.degree >= SumScores("degree", 1)
        /\ type \in {person, organization}

\* the key entities of the reply that name an entity
TopEntitiesOf(type, normalized_value) ==
    { j \in DOMAIN insights.top_entities :
        /\ insights.top_entities[j].type = type
        /\ insights.top_entities[j].label = RawValue(normalized_value) }

\* C18: an entity is listed as a key entity exactly when its priority score is
\* at least avgPriority + (100 - avgPriority) * 0.5, its degree is at least the
\* average degree and its type is person or organization.
C18_KeyEntityIffRule ==
    Answered =>
        \A k \in CanonicalKeys :
            (pc = "done" /\ TopEntitiesOf(k[1], k[2]) # {})
            <=> MeetsKeyEntityRule(k[1], k[2])

\* C19: a run over zero or one canonical entity replies with avgPriority 0,
\* avgDegree 0, no anomaly and no key entity.
C19_FewEntitiesNoPatterns ==
    (Answered /\ Cardinality(CanonicalKeys) <= 1) =>
        /\ pc = "done"
        /\ insights.stats.avg_priority = 0
        /\ insights.stats.avg_degree = 0
        /\ insights.anomalies = <<>>
        /\ insights.top_entities = <<>>

\* the insights of a run over no observation, but for total_nodes
EmptyInsights(total_nodes) ==
    [top_entities |-> <<>>, anomalies |-> <<>>,
     stats |-> [total_nodes |-> total_nodes, total_edges |-> 0,
                avg_priority |-> 0, avg_degree |-> 0]]

\* C20: a run over no observation replies with no node, no edge and insights
\* that are empty with all four stats 0, whatever investigations the user has.
C20_EmptyRunEmptyGraph ==
    (Answered /\ intelRows = <<>>) =>
        /\ pc = "done"
        /\ nodes = <<>>
        /\ edges = <<>>
        /\ insights = EmptyInsights(0)

\* C20, amended: a run over no observation replies with one node per
\* investigation of the user and no other node, no edge, and insights that are
\* empty with total_nodes the number of investigations and the other stats 0.
C20_EmptyRunInvestigationNodesOnly ==
    (Answered /\ intelRows = <<>>) =>
        /\ pc = "done"
        /\ Len(nodes) = Len(invRows)
        /\ \A j \in DOMAIN nodes : /\ nodes[j].id = InvNodeId(invRows[j])
                                     /\ nodes[j].type = "input"
        /\ edges = <<>>
        /\ insights = EmptyInsights(Len(invRows))

\* a user with three investigations and no observation has been answered
C20_Witness ==
    /\ pc = "done"
    /\ intelRows = <<>>
    /\ Len(invRows) = 3
    /\ Len(nodes) = 3

(* ---------------------- properties of the capped lists ----------------- *)
\* a list of records is in descending order of a field
SortedDesc(list, field) ==
    \A i, j \in DOMAIN list : i < j => list[i][field] >= list[j][field]

\* the frequency-spike rule, from the observations of an entity
MeetsSpikeRule(type, normalized_value) ==
    /\ FreqMonthlyOf(type, normalized_value) > 0
    /\ 4 * Freq7dOf(type, normalized_value) > 3 * FreqMonthlyOf(type, normalized_value)
    /\ Freq7dOf(type, normalized_value) > 1

\* spikeRatio = freq7d / (freqMonthly / 4), rounded to tenths
SpikeRatioOf(type, normalized_value) ==
    (80 * Freq7dOf(type, normalized_value) + FreqMonthlyOf(type, normalized_value))
    \div (2 * FreqMonthlyOf(type, normalized_value))

\* C21: top_entities has at most 5 entries in descending order of priority and
\* holds the key entities of highest priority (a key entity is listed, or five
\* are listed and none has a lower priority than it); anomalies has at most 5
\* entries in descending order of spike ratio and holds the anomalies of
\* largest spike ratio in the same sense.
C21_TopFiveLists ==
    Answered =>
        /\ Len(insights.top_entities) <= 5
        /\ SortedDesc(insights.top_entities, "priority")
        /\ \A k \in CanonicalKeys :
              MeetsKeyEntityRule(k[1], k[2]) =>
                  \/ TopEntitiesOf(k[1], k[2]) # {}
                  \/ /\ Len(insights.top_entities) = 5
                     /\ \A j \in DOMAIN insights.top_entities :
                           insights.top_entities[j].priority >= EntityScore(k[1], k[2]).score
        /\ Len(insights.anomalies) <= 5
        /\ SortedDesc(insights.anomalies, "spike_ratio")
        /\ \A k \in CanonicalKeys :
              MeetsSpikeRule(k[1], k[2]) =>
                  \/ AnomaliesOf(k[1], k[2]) # {}
                  \/ /\ Len(insights.anomalies) = 5
                     /\ \A j \in DOMAIN insights.anomalies :
                           insights.anomalies[j].spike_ratio >= SpikeRatioOf(k[1], k[2])

(* --------------------- properties of malformed rows -------------------- *)
\* the delivered rows that have a created_at
DatedRows == SelectSeq(intelRows, LAMBDA row : row.created_at # NullDate)

\* C22: a row without created_at is left out of the aggregation and never makes
\* the run fail: the run ends as the run over the other rows ends, and a reply
\* is the one computed from the other rows (entities, first_seen, last_seen,
\* frequency and aging category included).
C22_UndatedRowExcluded ==
    Answered =>
        \A g \in {Graph(invRows, DatedRows, nowTime)} :
            /\ pc = "failed" <=> g.threw
            /\ pc = "done" => /\ entityStats = g.entityStats
                              /\ nodes = g.nodes
                              /\ edges = g.edges
                              /\ insights = g.insights

(* ------------------------ properties of failures ----------------------- *)
\* C23: when a query of the handler fails, the request is answered with an error
\* and no node, edge or insight; the handler then returns without querying again.
C23_FetchFailureIsWholeFailure ==
    [][/\ pc' = "failed" => (nodes' = <<>> /\ edges' = <<>> /\ insights' = NoInsights)
       /\ pc = "failed" => pc' \in {"failed", "idle"}]_vars

\* the intelligence query has failed after the investigations query delivered rows
C23_Witness ==
    /\ pc = "failed"
    /\ invRows # <<>>
    /\ intelligence # EmptyBag
    /\ entityStats = <<>>
    /\ entityPatterns = <<>>
    /\ nodes = <<>>


\* ---- GET /api/graph at the server: the shared app and the audit log ----

\* the handler registered when the app is built: its body registers the
\* alert stream, the timeline, the report and a second GET /api/graph on the
\* shared app and returns the app. Whether the framework still adds routes once
\* it serves requests is not decided by this repository: the calls either add
\* the routes or throw, and a throw ends the request with status 500
OuterGraph(r) ==
    /\ servePc[r] = "idle"
    /\ <<"/api/graph", "graphOuter">> \in routes
    /\ \E added \in BOOLEAN :
         IF added
         THEN /\ routes' = routes \cup NestedRoutes
              /\ servePc' = [servePc EXCEPT ![r] = "returnedApp"]
         ELSE /\ routes' = routes
              /\ servePc' = [servePc EXCEPT ![r] = "failed"]
    /\ UNCHANGED <<mainVars, isoVars, createVars, auditLogs>>

\* logAudit of the nested handler: one row of audit_logs per request; a failed
\* insert is logged and swallowed
InnerAudit(r) ==
    /\ servePc[r] = "idle"
    /\ <<"/api/graph", "graphInner">> \in routes
    /\ auditLogs < MaxRequests
    /\ \E inserted \in BOOLEAN :
         auditLogs' = IF inserted THEN auditLogs + 1 ELSE auditLogs
    /\ servePc' = [servePc EXCEPT ![r] = "audited"]
    /\ UNCHANGED <<mainVars, isoVars, createVars, routes>>

\* the rest of the nested handler: the queries and the computation over
\* structures of its own, ending in the graph or in status 500
InnerReply(r) ==
    /\ servePc[r] = "audited"
    /\ \E threw \in BOOLEAN :
         servePc' = [servePc EXCEPT ![r] = IF threw THEN "failed" ELSE "replied"]
    /\ UNCHANGED <<mainVars, isoVars, createVars, routes, auditLogs>>

\* the graph handler and its store before any request
MainIdle ==
    /\ investigations = {}
    /\ intelligence = EmptyBag
    /\ pc = "idle"
    /\ invRows = <<>>
    /\ intelRows = <<>>
    /\ rowsAfter = <<>>
    /\ nowTime = 0
    /\ entityStats = <<>>
    /\ entityPatterns = <<>>
    /\ nodes = <<>>
    /\ edges = <<>>
    /\ insights = NoInsights
    /\ keyPairs = <<>>
    /\ keyIds = <<>>
    /\ scoreIn = <<>>
    /\ scoreOut = <<>>

ServeInit == SideIdle /\ MainIdle

ServeNext ==
    \E r \in Requests :
        \/ OuterGraph(r)
        \/ InnerAudit(r)
        \/ InnerReply(r)

ServeSpec == ServeInit /\ [][ServeNext]_vars

C25_InputUnchanged ==
    Answered => rowsAfter = intelRows

\* the relations of the delivered rows of an entity from row i on, in order
RECURSIVE RelationsOfRows(_, _)
RelationsOfRows(entId, i) ==
    IF i > Len(intelRows) THEN <<>>
    ELSE (IF EntId(intelRows[i].type, intelRows[i].normalized_value) = entId
          THEN intelRows[i].metadata.relations
          ELSE <<>>) \o RelationsOfRows(entId, i + 1)

\* C26: the relations of an entity are the relation lists of its observations
\* one after the other in observation order, each list exactly once
C26_RelationsConcatenatedOnce ==
    Answered =>
        \A k \in DOMAIN entityStats :
            entityStats[k].metadata.relations = RelationsOfRows(entityStats[k].id, 1)

\* the delivered rows of an entity that carry a sentiment value
SentimentRows(entId) ==
    { i \in DOMAIN intelRows :
        /\ EntId(intelRows[i].type, intelRows[i].normalized_value) = entId
        /\ ~intelRows[i].metadata.isNull }

RECURSIVE SumSentiments(_)
SumSentiments(rowSet) ==
    IF rowSet = {} THEN 0
    ELSE LET i == CHOOSE j \in rowSet : TRUE
         IN  intelRows[i].metadata.average_sentiment + SumSentiments(rowSet \ {i})

\* C27: the sentiment of an entity is the average of the sentiment values of
\* all its observations, and 0 when none carries one
C27_SentimentIsAverage ==
    Answered =>
        \A k \in DOMAIN entityStats :
            \A rowSet \in {SentimentRows(entityStats[k].id)} :
                entityStats[k].metadata.average_sentiment * Cardinality(rowSet)
                    = SumSentiments(rowSet)


\* ---- the user-scoped endpoints of the gateway, for two users ----

\* what a reply or a stream event carries: the investigation its data comes from
Item(kind, inv) == <<[kind |-> kind, inv |-> inv]>>

\* the reply of a request on a row the user does not own: 404, no data
NoData == <<>>

\* GET /api/investigations/:id: SELECT ... WHERE id = $1 AND user_id = $2, then
\* the artifacts and the intelligence of that id
GetInvestigation(user, id) ==
    /\ delivered' = [delivered EXCEPT ![user] =
                        IF IsoOwner[id] = user THEN Item("investigation", id) ELSE NoData]
    /\ UNCHANGED <<mainVars, serveVars, createVars, intelMetadata, alertSubs>>

\* GET /api/artifacts/:id/content of the artifact of investigation id: the
\* join with investigations on i.user_id = $2
GetArtifactContent(user, id) ==
    /\ delivered' = [delivered EXCEPT ![user] =
                        IF IsoOwner[id] = user THEN Item("artifact", id) ELSE NoData]
    /\ UNCHANGED <<mainVars, serveVars, createVars, intelMetadata, alertSubs>>

\* GET /api/search: the hits of the index under the filter user_id = user
SearchHits(user) == { inv \in IsoInvs : IsoOwner[inv] = user }

Search(user) ==
    /\ \E q \in BOOLEAN :
         IF q
         THEN \E inv \in SearchHits(user) :
                 delivered' = [delivered EXCEPT ![user] = Item("search", inv)]
         ELSE delivered' = [delivered EXCEPT ![user] = NoData]
    /\ UNCHANGED <<mainVars, serveVars, createVars, intelMetadata, alertSubs>>

\* PATCH /api/entities/:entityType/:entityValue of an entity seen in every
\* investigation: UPDATE intelligence ... WHERE investigation_id IN (SELECT
\* id FROM investigations WHERE user_id = $4) RETURNING id, metadata
PatchEntity(user) ==
    /\ \E hasFields \in BOOLEAN :
         IF hasFields
         THEN /\ intelMetadata' = [inv \in IsoInvs |->
                                     IF IsoOwner[inv] = user THEN user
                                     ELSE intelMetadata[inv]]
              /\ \E inv \in { x \in IsoInvs : IsoOwner[x] = user } :
                    delivered' = [delivered EXCEPT ![user] = Item("entity", inv)]
         ELSE /\ intelMetadata' = intelMetadata
              /\ delivered' = [delivered EXCEPT ![user] = NoData]
    /\ UNCHANGED <<mainVars, serveVars, createVars, alertSubs>>

\* GET /api/investigations/:id/timeline: the ownership query, then the events
GetTimeline(user, id) ==
    /\ delivered' = [delivered EXCEPT ![user] =
                        IF IsoOwner[id] = user THEN Item("timeline", id) ELSE NoData]
    /\ UNCHANGED <<mainVars, serveVars, createVars, intelMetadata, alertSubs>>

\* GET /api/alerts/stream: a Redis connection of the request subscribes to
\* the channel 'alerts'; the first event is a ping
AlertsStream(user) ==
    /\ user \notin alertSubs
    /\ alertSubs' = alertSubs \cup {user}
    /\ delivered' = [delivered EXCEPT ![user] = NoData]
    /\ UNCHANGED <<mainVars, serveVars, createVars, intelMetadata>>

\* a message about an investigation arrives on the channel 'alerts': the
\* 'message' handler of every open stream writes it to its client
AlertMessage(inv) ==
    /\ alertSubs # {}
    /\ delivered' = [u \in IsoUsers |->
                        IF u \in alertSubs THEN Item("alert", inv) ELSE delivered[u]]
    /\ UNCHANGED <<mainVars, serveVars, createVars, intelMetadata, alertSubs>>

\* the client closes the stream: sub.disconnect()
CloseStream(user) ==
    /\ user \in alertSubs
    /\ alertSubs' = alertSubs \ {user}
    /\ UNCHANGED <<mainVars, serveVars, createVars, intelMetadata, delivered>>

IsoInit == SideIdle /\ MainIdle

IsoNext ==
    \/ \E user \in IsoUsers, id \in IsoInvs :
          \/ GetInvestigation(user, id)
          \/ GetArtifactContent(user, id)
          \/ GetTimeline(user, id)
    \/ \E user \in IsoUsers :
          \/ Search(user)
          \/ PatchEntity(user)
          \/ AlertsStream(user)
          \/ CloseStream(user)
    \/ \E inv \in IsoInvs : AlertMessage(inv)

IsoSpec == IsoInit /\ [][IsoNext]_vars

\* C28: whatever a user receives (investigation detail, artifact content,
\* search hits, entity update, timeline, alert stream) comes from an
\* investigation the user owns, and the intelligence of an investigation is
\* written by its owner only
C28_UserScopedIsolation ==
    /\ \A user \in IsoUsers :
          delivered[user] # NoData => IsoOwner[delivered[user][1].inv] = user
    /\ \A inv \in IsoInvs : intelMetadata[inv] \in { "none", IsoOwner[inv] }


CreateRejected(r) ==
    /\ createPc[r] = "idle"
    /\ createPc' = [createPc EXCEPT ![r] = "badRequest"]
    /\ UNCHANGED <<mainVars, serveVars, isoVars, createdRows, taskQueue>>

\* await pool.query("INSERT INTO investigations ..."): the row is inserted, or
\* the query rejects and catch (err) replies 500
CreateInsert(r) ==
    /\ createPc[r] = "idle"
    /\ \E inserted \in BOOLEAN :
         IF inserted
         THEN /\ createdRows' = createdRows \cup {r}
              /\ createPc' = [createPc EXCEPT ![r] = "inserted"]
         ELSE /\ createdRows' = createdRows
              /\ createPc' = [createPc EXCEPT ![r] = "error500"]
    /\ UNCHANGED <<mainVars, serveVars, isoVars, taskQueue>>

\* await redis.lpush('tasks:collector', JSON.stringify(task)) and the reply
\* {status: 'queued', id}, or the push rejects and catch (err) replies 500
CreatePush(r) ==
    /\ createPc[r] = "inserted"
    /\ \E pushed \in BOOLEAN :
         IF pushed
         THEN /\ taskQueue' = <<r>> \o taskQueue
              /\ createPc' = [createPc EXCEPT ![r] = "queued"]
         ELSE /\ taskQueue' = taskQueue
              /\ createPc' = [createPc EXCEPT ![r] = "error500"]
    /\ UNCHANGED <<mainVars, serveVars, isoVars, createdRows>>

CreateInit == SideIdle /\ MainIdle

CreateNext ==
    \E r \in CreateRequests :
        \/ CreateRejected(r)
        \/ CreateInsert(r)
        \/ CreatePush(r)

CreateSpec == CreateInit /\ [][CreateNext]_vars

\* number of tasks of the queue with the id of a request
TasksOf(r) == Cardinality({ j \in DOMAIN taskQueue : taskQueue[j] = r })

\* C30: once a request is answered, the investigations table and the queue
\* agree on it: its row comes with exactly one task of the same id, a request
\* answered 'queued' has both, a request answered 500 has left neither
C30_DbAndQueueInStep ==
    \A r \in CreateRequests :
        /\ createPc[r] # "inserted" => (r \in createdRows <=> TasksOf(r) = 1)
        /\ TasksOf(r) <= 1
        /\ createPc[r] = "queued" => (r \in createdRows /\ TasksOf(r) = 1)
        /\ createPc[r] = "error500" => (r \notin createdRows /\ TasksOf(r) = 0)

====
